---- MODULE Spec2Model ----
(***************************************************************************)
(* Ipsumify (src/index.html): the markdown generator of the component      *)
(* LoremMarkdownGenerator and the handlers of its host page.               *)
(*                                                                         *)
(* Text is a TLA+ string; "\n" is the newline character.  Math.random() is *)
(* a finite-state generator: the variable rng is its state, a call returns *)
(* rng / RandDen and advances rng by NextRng.  Math.floor(Math.random()*n) *)
(* is therefore (rng * n) \div RandDen, and Math.random() < k/10 is        *)
(* 10 * rng < k * RandDen.  The initial state of the generator is the      *)
(* nondeterministic input of a run.                                        *)
(***************************************************************************)
EXTENDS Integers, Sequences, FiniteSets, TLC

VARIABLES options, generatedText, isLoading, timers, pc, content,
          headingPositions, blk, rng, clipboard, downloaded, ops,
          copySuccess, showResetToast, copyTimers, resetTimers,
          mdText, htmlText, clickOptions, clickedSinceReset

vars == <<options, generatedText, isLoading, timers, pc, content,
          headingPositions, blk, rng, clipboard, downloaded, ops,
          copySuccess, showResetToast, copyTimers, resetTimers,
          mdText, htmlText, clickOptions, clickedSinceReset>>

\* the feedback shown after a copy and after a reset, and the pending
\* timers that hide it
feedback == <<copySuccess, showResetToast, copyTimers, resetTimers>>

\* a call of markdownToHtml observed on its own: its argument and the
\* string it returns ("" before the call)
conv == <<mdText, htmlText>>

\* the last click on Generate: the values of options at that click, and
\* whether it came after the last click on Reset.  generateMarkdown and
\* generateContent are functions of the component body, so the timer
\* callback a click creates keeps the generateContent, and with it the
\* options, of the render the click was handled in.
click == <<clickOptions, clickedSinceReset>>

(***************************************************************************)
(* Bounds of the model.                                                    *)
(***************************************************************************)
\* initial states of the random generator explored: 0 .. MaxSeed
MaxSeed == 0
\* a generated paragraph has at most MaxSentences sentences
MaxSentences == 4
\* a generated sentence has at most MaxSentenceLen words
MaxSentenceLen == 8
\* a generator configuration has at most MaxFlags flags set
MaxFlags == 2
\* the user performs at most MaxOps operations in a run of the host page
MaxOps == 3
\* a run of the host page starts with the random source in 0..MaxHostSeed
MaxHostSeed == 0
\* markdownToHtml is applied to every text of at most MaxInputLen pieces
MaxInputLen == 3

(***************************************************************************)
(* The random source.                                                      *)
(***************************************************************************)
RandDen == 64
RngA == 13
RngC == 7
NextRng(r) == (RngA * r + RngC) % RandDen
\* Math.floor(Math.random() * n) when the generator is in state r
RandFloor(r, n) == (r * n) \div RandDen
\* Math.random() < tenths / 10 when the generator is in state r
RandBelow(r, tenths) == 10 * r < tenths * RandDen

(***************************************************************************)
(* String helpers (JavaScript String methods).                             *)
(***************************************************************************)
CharAt(s, i) == SubSeq(s, i, i)
Range(f) == {f[x] : x \in DOMAIN f}
Min2(a, b) == IF a < b THEN a ELSE b
Max2(a, b) == IF a > b THEN a ELSE b

\* "c".repeat(n)
RECURSIVE Repeat(_, _)
Repeat(c, n) ==
  IF n <= 0 THEN ""
  ELSE IF n = 1 THEN c
  ELSE LET half == Repeat(c, n \div 2)
       IN half \o half \o (IF n % 2 = 1 THEN c ELSE "")

\* ws[lo] sep ws[lo + 1] sep ... ws[hi]
RECURSIVE JoinRange(_, _, _, _)
JoinRange(ws, sep, lo, hi) ==
  IF lo > hi THEN ""
  ELSE IF lo = hi THEN ws[lo]
  ELSE LET mid == (lo + hi) \div 2
       IN JoinRange(ws, sep, lo, mid) \o sep \o JoinRange(ws, sep, mid + 1, hi)

\* ws.join(sep)
Join(ws, sep) == JoinRange(ws, sep, 1, Len(ws))

\* index of the first occurrence of the character c in s[p..hi], or hi + 1
\* when there is none
IndexIn(s, c, p, hi) ==
  CHOOSE i \in p..Max2(p, hi + 1) :
    /\ i > hi \/ CharAt(s, i) = c
    /\ \A j \in p..(i - 1) : CharAt(s, j) # c

\* index of the first occurrence of the character c in s at or after
\* position p, or Len(s) + 1 when there is none
IndexFrom(s, c, p) == IndexIn(s, c, p, Len(s))

\* the pieces of s[lo..hi] between the separator positions P, all of which
\* lie in lo..hi: the text is cut at the separator nearest to its middle
\* and the two parts are cut in the same way
RECURSIVE SplitAt(_, _, _, _)
SplitAt(s, P, lo, hi) ==
  IF P = {} THEN <<SubSeq(s, lo, hi)>>
  ELSE LET mid == (lo + hi) \div 2
           Dist(q) == IF q < mid THEN mid - q ELSE q - mid
           m == CHOOSE q \in P :
                  \A q2 \in P : Dist(q) < Dist(q2)
                                \/ (Dist(q) = Dist(q2) /\ q <= q2)
       IN SplitAt(s, {q \in P : q < m}, lo, m - 1)
          \o SplitAt(s, {q \in P : q > m}, m + 1, hi)

\* s.split(c) for a one-character separator c
Split(s, c) ==
  SplitAt(s, {i \in 1..Len(s) : CharAt(s, i) = c}, 1, Len(s))

\* s.startsWith(p)
StartsWith(s, p) == Len(s) >= Len(p) /\ SubSeq(s, 1, Len(p)) = p

\* s.includes(p)
Contains(s, p) ==
  \E i \in 1..(Len(s) - Len(p) + 1) : SubSeq(s, i, i + Len(p) - 1) = p

IsSpace(c) == c \in {" ", "\n", "\t"}

\* s.trim()
RECURSIVE TrimLeft(_)
TrimLeft(s) ==
  IF Len(s) > 0 /\ IsSpace(CharAt(s, 1)) THEN TrimLeft(Tail(s)) ELSE s

RECURSIVE TrimRight(_)
TrimRight(s) ==
  IF Len(s) > 0 /\ IsSpace(CharAt(s, Len(s)))
  THEN TrimRight(SubSeq(s, 1, Len(s) - 1)) ELSE s

Trim(s) == TrimRight(TrimLeft(s))

\* The grave accent cannot be written inside a TLA+ string literal.  The
\* character is written Backtick; it stands for U+0060 everywhere in the
\* model, and the tilde occurs in no text of the program.
Backtick == "~"
Fence == Backtick \o Backtick \o Backtick

LowerChars == "abcdefghijklmnopqrstuvwxyz"
UpperChars == "ABCDEFGHIJKLMNOPQRSTUVWXYZ"

\* c.toUpperCase() for a string of at most one character
ToUpperCase(c) ==
  LET k == IndexFrom(LowerChars, c, 1)
  IN IF Len(c) = 1 /\ k <= Len(LowerChars) THEN CharAt(UpperChars, k) ELSE c

\* the decimal representation of a natural number (template ${i + 1})
Digits == <<"0", "1", "2", "3", "4", "5", "6", "7", "8", "9">>
RECURSIVE NatToString(_)
NatToString(n) ==
  IF n < 10 THEN Digits[n + 1]
  ELSE NatToString(n \div 10) \o Digits[(n % 10) + 1]

(***************************************************************************)
(* Fixtures.                                                               *)
(***************************************************************************)
codeExamples == <<
  [lang |-> "javascript",
   code |-> "function processData(input) {\n  return input.map(x => x * 2)\n    .filter(x => x > 10);\n}"],
  [lang |-> "bash",
   code |-> "#!/bin/bash\nfor i in {1..5}\ndo\n  echo \"Processing $i...\"\n  sleep 1\ndone"],
  [lang |-> "python",
   code |-> "def fibonacci(n):\n    if n <= 1:\n        return n\n    return fibonacci(n-1) + fibonacci(n-2)"],
  [lang |-> "sql",
   code |-> "SELECT category, COUNT(*) as total\nFROM products\nGROUP BY category\nHAVING total > 100;"] >>

latinWords == <<
  "Aether", "Bellum", "Carmen", "Deus", "Enim", "Fatum", "Gloria", "Homo",
  "Idem", "Jugum", "Lumen", "Mare", "Nox", "Opus", "Pax", "Quam", "Rex",
  "Sol", "Tempus", "Umbra", "Vita", "Vox", "Terra", "Sanctum", "Virtus",
  "Manus", "Caelum", "Anima", "Stella", "Ventus", "Magnus", "Patria",
  "Fortis", "Sapiens", "Veritas", "Natura", "Vis", "Lex", "Fides", "Amor",
  "Mors", "Pater", "Mater", "Filius", "Roma", "Diem", "Numen", "Corpus",
  "Annus", "Ignis", "Aqua", "Arbor", "Mons" >>

words == <<
  "Lorem", "ipsum", "dolor", "sit", "amet", "consectetur", "adipiscing",
  "elit", "caligine", "fassaque", "portitor", "fine", "summo", "bis", "est",
  "orbus", "aether", "bellum", "carmen", "deus", "enim", "fatum", "gloria",
  "homo", "idem", "jugum", "lumen", "mare", "nox", "opus", "pax", "quam",
  "rex", "sol", "tempus", "umbra", "vita", "vox", "terra", "sanctum",
  "virtus", "manus", "caelum", "anima", "stella", "ventus" >>

listBlock ==
  "* Sanguine mendaci in supplex vertitur moenia\n* Quae nec frondes linguae\n* Hoc adalah medendi tamen\n\n"

(***************************************************************************)
(* The generator: generateRandomHeading, generateParagraph,                *)
(* generateHeading, generateCodeBlock.  An operator that calls             *)
(* Math.random() takes the state r of the random generator and returns     *)
(* [out |-> its result, rng |-> the state of the generator afterwards].    *)
(***************************************************************************)
Flags == {"noHeaders", "noCodeSnippets", "noInlineMarkup", "noBlockquotes",
          "noLists", "noExternalLinks", "noWrapping", "capitalizeSentences",
          "underlinedHeaders", "referenceLinks", "emStyle", "strongStyle",
          "codeBlocks"}

\* the initial value of the options state, also set by resetOptions
DefaultOptions ==
  [noHeaders |-> FALSE, noCodeSnippets |-> FALSE, noInlineMarkup |-> FALSE,
   noBlockquotes |-> FALSE, noLists |-> FALSE, noExternalLinks |-> FALSE,
   noWrapping |-> FALSE, capitalizeSentences |-> FALSE,
   underlinedHeaders |-> FALSE, referenceLinks |-> FALSE, emStyle |-> FALSE,
   strongStyle |-> FALSE, codeBlocks |-> FALSE, numBlocks |-> 10]

\* getRandomWord of generateRandomHeading
HeadingWord(r) == latinWords[RandFloor(r, Len(latinWords)) + 1]

\* the while loop of generateRandomHeading
RECURSIVE HeadingLoop(_, _, _)
HeadingLoop(ws, length, r) ==
  IF Len(ws) >= length THEN [out |-> ws, rng |-> r]
  ELSE LET word == HeadingWord(r)
       IN HeadingLoop(IF \E k \in 1..Len(ws) : ws[k] = word
                      THEN ws ELSE Append(ws, word),
                      length, NextRng(r))

\* faulty variant of generateRandomHeading: 3 to 9 words
generateRandomHeading_FromThree(r) ==
  LET length == RandFloor(r, 7) + 3
      res == HeadingLoop(<<>>, length, NextRng(r))
  IN [out |-> Join(res.out, " "), rng |-> res.rng]

generateRandomHeading(r) ==
  LET length == RandFloor(r, 7) + 4
      res == HeadingLoop(<<>>, length, NextRng(r))
  IN [out |-> Join(res.out, " "), rng |-> res.rng]

\* getRandomWord of generateParagraph
getRandomWord(r) == words[RandFloor(r, Len(words)) + 1]

getRandomInt(min, max, r) == RandFloor(r, max - min + 1) + min

\* the inner loop of generateParagraph: sentence += getRandomWord() + " "
RECURSIVE SentenceLoop(_, _, _)
SentenceLoop(sentence, j, r) ==
  IF j = 0 THEN [out |-> sentence, rng |-> r]
  ELSE SentenceLoop(sentence \o getRandomWord(r) \o " ", j - 1, NextRng(r))

\* sentence.charAt(0).toUpperCase() + sentence.slice(1)
Capitalize(sentence) ==
  ToUpperCase(CharAt(sentence, 1)) \o SubSeq(sentence, 2, Len(sentence))

\* one iteration of the sentence loop of generateParagraph
GenerateSentence(opts, r) ==
  LET sentenceLength == Min2(getRandomInt(8, 15, r), MaxSentenceLen)
      res == SentenceLoop("", sentenceLength, NextRng(r))
      sentence == Trim(res.out) \o ". "
  IN [out |-> IF opts.capitalizeSentences THEN Capitalize(sentence)
              ELSE sentence,
      rng |-> res.rng]

\* the sentence loop of generateParagraph
RECURSIVE ParagraphLoop(_, _, _, _)
ParagraphLoop(opts, paragraph, n, r) ==
  IF n = 0 THEN [out |-> paragraph, rng |-> r]
  ELSE LET s == GenerateSentence(opts, r)
       IN ParagraphLoop(opts, paragraph \o s.out, n - 1, s.rng)

\* faulty variant of WrapWord: tests strongStyle before emStyle
WrapWord_StrongFirst(opts, word) ==
  IF opts.strongStyle THEN "__" \o word \o "__"
  ELSE IF opts.emStyle THEN "_" \o word \o "_"
  ELSE word

\* faulty variant of WrapWord: with both styles set the word gets both
\* wrappers
WrapWord_Nested(opts, word) ==
  IF opts.emStyle /\ opts.strongStyle THEN "___" \o word \o "___"
  ELSE IF opts.emStyle THEN "_" \o word \o "_"
  ELSE IF opts.strongStyle THEN "__" \o word \o "__"
  ELSE word

\* the replacement of a word that the emphasis pass has chosen
WrapWord(opts, word) ==
  IF opts.emStyle THEN "_" \o word \o "_"
  ELSE IF opts.strongStyle THEN "__" \o word \o "__"
  ELSE word

\* words.forEach of the emphasis pass on ws[lo..hi]; the callback draws
\* one random number per word, in the order of the words
RECURSIVE EmphasisLoop(_, _, _, _, _)
EmphasisLoop(opts, ws, lo, hi, r) ==
  IF lo > hi THEN [out |-> <<>>, rng |-> r]
  ELSE IF lo = hi
  THEN [out |-> <<IF RandBelow(r, 1) THEN WrapWord(opts, ws[lo]) ELSE ws[lo]>>,
        rng |-> NextRng(r)]
  ELSE LET mid == (lo + hi) \div 2
           left == EmphasisLoop(opts, ws, lo, mid, r)
           right == EmphasisLoop(opts, ws, mid + 1, hi, left.rng)
       IN [out |-> left.out \o right.out, rng |-> right.rng]

\* faulty variant of AppliesEmphasis: noInlineMarkup switches the emphasis
\* pass off
AppliesEmphasis_UnlessNoInlineMarkup(opts) ==
  (opts.emStyle \/ opts.strongStyle) /\ ~opts.noInlineMarkup

\* whether generateParagraph runs the emphasis pass
AppliesEmphasis(opts) == opts.emStyle \/ opts.strongStyle

generateParagraph(opts, r) ==
  LET numSentences == Min2(getRandomInt(4, 15, r), MaxSentences)
      body == ParagraphLoop(opts, "", numSentences, NextRng(r))
  IN IF AppliesEmphasis(opts)
     THEN LET tokens == Split(body.out, " ")
              res == EmphasisLoop(opts, tokens, 1, Len(tokens), body.rng)
          IN [out |-> Join(res.out, " "), rng |-> res.rng]
     ELSE body

\* faulty variant of HeadingText: ignores underlinedHeaders, always ATX
HeadingText_AlwaysAtx(opts, level, heading) ==
  Repeat("#", level) \o " " \o heading \o "\n\n"

\* faulty variant of HeadingText: ignores underlinedHeaders, always Setext
HeadingText_AlwaysSetext(opts, level, heading) ==
  heading \o "\n"
  \o (IF level = 1 THEN Repeat("=", Len(heading))
      ELSE Repeat("-", Len(heading)))
  \o "\n\n"

\* faulty variant of HeadingText: the underline is one character shorter
\* than the phrase
HeadingText_ShortUnderline(opts, level, heading) ==
  IF opts.underlinedHeaders
  THEN heading \o "\n"
       \o (IF level = 1 THEN Repeat("=", Len(heading) - 1)
           ELSE Repeat("-", Len(heading) - 1))
       \o "\n\n"
  ELSE Repeat("#", level) \o " " \o heading \o "\n\n"

\* the heading text of generateHeading for a heading phrase
HeadingText(opts, level, heading) ==
  IF opts.underlinedHeaders
  THEN heading \o "\n"
       \o (IF level = 1 THEN Repeat("=", Len(heading))
           ELSE Repeat("-", Len(heading)))
       \o "\n\n"
  ELSE Repeat("#", level) \o " " \o heading \o "\n\n"

generateHeading(opts, level, r) ==
  LET h == generateRandomHeading(r)
  IN [out |-> HeadingText(opts, level, h.out), rng |-> h.rng]

\* the text of generateCodeBlock for a code example
CodeBlockText(opts, example) ==
  IF opts.codeBlocks
  THEN Fence \o example.lang \o "\n" \o example.code \o "\n" \o Fence
       \o "\n\n"
  ELSE Backtick \o Split(example.code, "\n")[1] \o Backtick \o "\n\n"

generateCodeBlock(opts, r) ==
  [out |-> CodeBlockText(opts, codeExamples[RandFloor(r, Len(codeExamples)) + 1]),
   rng |-> NextRng(r)]

(***************************************************************************)
(* generateContent, one step at a time.                                    *)
(***************************************************************************)
\* the main heading of generateContent
MainHeading(opts, r) ==
  IF ~opts.noHeaders
  THEN LET h == generateRandomHeading(r)
       IN [out |-> IF opts.underlinedHeaders
                   THEN h.out \o "\n" \o Repeat("=", Len(h.out)) \o "\n\n"
                   ELSE "# " \o h.out \o "\n\n",
           rng |-> h.rng]
  ELSE [out |-> "", rng |-> r]

\* faulty variant of numSubheadings: a quarter of the blocks, at least one
numSubheadings_Quarter(numBlocks) == Max2(1, numBlocks \div 4)

numSubheadings(numBlocks) == Max2(3, numBlocks \div 4)

\* faulty variant of SubHeading: does not test noHeaders
SubHeading_IgnoresNoHeaders(opts, positions, i, r) ==
  IF i \in positions
  THEN generateHeading(opts, IF RandBelow(r, 3) THEN 3 ELSE 2, NextRng(r))
  ELSE [out |-> "", rng |-> r]

\* the subheading of block i
SubHeading(opts, positions, i, r) ==
  IF i \in positions /\ ~opts.noHeaders
  THEN generateHeading(opts, IF RandBelow(r, 3) THEN 3 ELSE 2, NextRng(r))
  ELSE [out |-> "", rng |-> r]

\* faulty variant of ListPart: does not test noLists
ListPart_IgnoresNoLists(opts, i) ==
  IF i % 4 = 1 THEN listBlock ELSE ""

\* faulty variant of ListPart: the list is due in blocks 0, 4, 8
ListPart_FromBlockZero(opts, i) ==
  IF ~opts.noLists /\ i % 4 = 0 THEN listBlock ELSE ""

\* the bullet list of block i
ListPart(opts, i) ==
  IF ~opts.noLists /\ i % 4 = 1 THEN listBlock ELSE ""

\* faulty variant of CodePart: the snippet is due in blocks 0, 5, ...
CodePart_FromBlockZero(opts, i, r) ==
  IF ~opts.noCodeSnippets /\ i % 5 = 0 THEN generateCodeBlock(opts, r)
  ELSE [out |-> "", rng |-> r]

\* the code snippet of block i
CodePart(opts, i, r) ==
  IF ~opts.noCodeSnippets /\ i % 5 = 2 THEN generateCodeBlock(opts, r)
  ELSE [out |-> "", rng |-> r]

\* faulty variant of LinkPart: the reference branch does not test
\* noExternalLinks
LinkPart_RefIgnoresNoExternal(opts, i) ==
  IF opts.referenceLinks /\ i % 3 = 0
  THEN "See [reference link][" \o NatToString(i + 1)
       \o "] for more information.\n\n"
       \o "[" \o NatToString(i + 1) \o "]: https://example.com/ref"
       \o NatToString(i + 1) \o "\n"
  ELSE IF ~opts.noExternalLinks /\ i % 3 = 0
  THEN "See [inline link](https://example.com/page" \o NatToString(i + 1)
       \o ") for more information.\n\n"
  ELSE ""

\* faulty variant of LinkPart: the definition line is numbered from the
\* block index instead of the link number
LinkPart_DefinitionOffByOne(opts, i) ==
  IF opts.referenceLinks /\ ~opts.noExternalLinks /\ i % 3 = 0
  THEN "See [reference link][" \o NatToString(i + 1)
       \o "] for more information.\n\n"
       \o "[" \o NatToString(i) \o "]: https://example.com/ref"
       \o NatToString(i) \o "\n"
  ELSE IF ~opts.noExternalLinks /\ i % 3 = 0
  THEN "See [inline link](https://example.com/page" \o NatToString(i + 1)
       \o ") for more information.\n\n"
  ELSE ""

\* the link of block i
LinkPart(opts, i) ==
  IF opts.referenceLinks /\ ~opts.noExternalLinks /\ i % 3 = 0
  THEN "See [reference link][" \o NatToString(i + 1)
       \o "] for more information.\n\n"
       \o "[" \o NatToString(i + 1) \o "]: https://example.com/ref"
       \o NatToString(i + 1) \o "\n"
  ELSE IF ~opts.noExternalLinks /\ i % 3 = 0
  THEN "See [inline link](https://example.com/page" \o NatToString(i + 1)
       \o ") for more information.\n\n"
  ELSE ""

\* faulty variant of BlockText: the list is written before the paragraph
BlockText_ListFirst(opts, positions, i, r) ==
  LET h == SubHeading(opts, positions, i, r)
      p == generateParagraph(opts, h.rng)
      c == CodePart(opts, i, p.rng)
  IN [out |-> h.out \o ListPart(opts, i) \o p.out \o "\n\n" \o c.out
              \o LinkPart(opts, i),
      rng |-> c.rng]

\* the body of the for loop of generateContent for block i
BlockText(opts, positions, i, r) ==
  LET h == SubHeading(opts, positions, i, r)
      p == generateParagraph(opts, h.rng)
      c == CodePart(opts, i, p.rng)
  IN [out |-> h.out \o p.out \o "\n\n" \o ListPart(opts, i) \o c.out
              \o LinkPart(opts, i),
      rng |-> c.rng]

(***************************************************************************)
(* The markdown-to-HTML converter.  Each String.replace of markdownToHtml  *)
(* is one operator that computes what the regular expression matches,      *)
(* leftmost match first, and the converter applies them in source order.   *)
(* A pattern is matched on the set of positions where its delimiters       *)
(* occur in the text.                                                      *)
(***************************************************************************)
\* s has the text d at position i
StartsAt(s, d, i) ==
  i >= 1 /\ i + Len(d) - 1 <= Len(s) /\ SubSeq(s, i, i + Len(d) - 1) = d

\* the positions of s where the text d occurs
Occurrences(s, d) ==
  {i \in 1..(Len(s) - Len(d) + 1) : SubSeq(s, i, i + Len(d) - 1) = d}

\* the least position of P at or after p, or none when there is no such
\* position
NextIn(P, p, none) ==
  IF \E q \in P : q >= p
  THEN CHOOSE q \in P : q >= p /\ \A r \in P : r >= p => q <= r
  ELSE none

\* /^# (.*$)/ and its h2 and h3 variants on one line
AtxLine(l, marker, tag) ==
  IF StartsAt(l, marker, 1)
  THEN "<" \o tag \o ">" \o SubSeq(l, Len(marker) + 1, Len(l))
       \o "</" \o tag \o ">"
  ELSE l

\* .replace(/^# (.*$)/gm, "<h1>$1</h1>")
\* .replace(/^## (.*$)/gm, "<h2>$1</h2>")
\* .replace(/^### (.*$)/gm, "<h3>$1</h3>"): under the m flag each pattern
\* stays within one line and no replace adds or removes a newline, so the
\* three act on every line in turn
ReplaceAtx(s) ==
  LET ls == Split(s, "\n")
      F(l) == AtxLine(AtxLine(AtxLine(l, "# ", "h1"), "## ", "h2"),
                      "### ", "h3")
  IN Join([k \in 1..Len(ls) |-> F(ls[k])], "\n")

\* l is one or more copies of the character c
IsRunOf(l, c) == Len(l) > 0 /\ \A i \in 1..Len(l) : CharAt(l, i) = c

\* /^(.+)\n=+\n/ can match at the start of line k: the line is not empty and
\* the next line is a run of c that is itself ended by a newline
SetextCandidate(ls, c, k) ==
  k + 1 < Len(ls) /\ ls[k] # "" /\ IsRunOf(ls[k + 1], c)

\* the g flag resumes after the consumed underline, so that a candidate
\* whose line was consumed as the underline of a match is skipped
RECURSIVE SetextMatch(_, _, _)
SetextMatch(ls, c, k) ==
  /\ SetextCandidate(ls, c, k)
  /\ k = 1 \/ ~SetextMatch(ls, c, k - 1)

\* .replace(/^(.+)\n=+\n/gm, "<h1>$1</h1>") and its h2 variant: both
\* newlines of a match are consumed
ReplaceSetext(s, c, tag) ==
  LET ls == Split(s, "\n")
      n == Len(ls)
      Piece(k) ==
        IF SetextMatch(ls, c, k)
        THEN "<" \o tag \o ">" \o ls[k] \o "</" \o tag \o ">"
        ELSE IF k > 1 /\ SetextMatch(ls, c, k - 1) THEN ""
        ELSE ls[k] \o (IF k < n THEN "\n" ELSE "")
  IN JoinRange([k \in 1..n |-> Piece(k)], "", 1, n)

\* the lazy pattern d(.+?)d on the line l from position p on, P being the
\* occurrences of d in l: the first d opens, the first d that leaves at
\* least one character in between closes
RECURSIVE WrapPairs(_, _, _, _, _)
WrapPairs(l, P, d, tag, p) ==
  LET none == Len(l) + 1
      i == NextIn(P, p, none)
      j == NextIn(P, i + Len(d) + 1, none)
  IN IF i = none \/ j = none
     THEN SubSeq(l, p, Len(l))
     ELSE SubSeq(l, p, i - 1) \o "<" \o tag \o ">"
          \o SubSeq(l, i + Len(d), j - 1) \o "</" \o tag \o ">"
          \o WrapPairs(l, P, d, tag, j + Len(d))

\* .replace(/\*\*(.+?)\*\*/g, "<strong>$1</strong>") and the replaces of
\* __ and _: the dot matches no newline
ReplacePairs(s, d, tag) ==
  LET ls == Split(s, "\n")
      F(l) == WrapPairs(l, Occurrences(l, d), d, tag, 1)
  IN IF Occurrences(s, d) = {} THEN s
     ELSE Join([k \in 1..Len(ls) |-> F(ls[k])], "\n")

\* the pattern d([^~]+)d, where ~ is the grave accent, on s from position p
\* on, D being the occurrences of d and B those of the grave accent;
\* candidates before position q have failed.  The group holds no grave
\* accent, so the closing d starts at the first one after the opening d.
RECURSIVE WrapCode(_, _, _, _, _, _, _, _)
WrapCode(s, D, B, d, open, close, p, q) ==
  LET none == Len(s) + 1
      i == NextIn(D, q, none)
      j == NextIn(B, i + Len(d), none)
  IN IF i = none THEN SubSeq(s, p, Len(s))
     ELSE IF j > i + Len(d) /\ j \in D
     THEN SubSeq(s, p, i - 1) \o open \o SubSeq(s, i + Len(d), j - 1)
          \o close
          \o WrapCode(s, D, B, d, open, close, j + Len(d), j + Len(d))
     ELSE WrapCode(s, D, B, d, open, close, p, i + 1)

\* .replace(/~~~([^~]+)~~~/g, "<pre><code>$1</code></pre>")
ReplaceFences(s) ==
  LET D == Occurrences(s, Fence)
  IN IF D = {} THEN s
     ELSE WrapCode(s, D, Occurrences(s, Backtick), Fence, "<pre><code>",
                   "</code></pre>", 1, 1)

\* .replace(/~([^~]+)~/g, "<code>$1</code>")
ReplaceInlineCode(s) ==
  LET B == Occurrences(s, Backtick)
  IN WrapCode(s, B, B, Backtick, "<code>", "</code>", 1, 1)

\* .replace(/^\* (.+)/gm, "<li>$1</li>")
ListLine(l) ==
  IF StartsAt(l, "* ", 1) /\ Len(l) >= 3
  THEN "<li>" \o SubSeq(l, 3, Len(l)) \o "</li>"
  ELSE l

ReplaceListItems(s) ==
  LET ls == Split(s, "\n")
  IN Join([k \in 1..Len(ls) |-> ListLine(ls[k])], "\n")

\* the link pattern on s from position p on, L, R and K being the
\* occurrences of [, ] and ); candidates before position q have failed
RECURSIVE WrapLinks(_, _, _, _, _, _)
WrapLinks(s, L, R, K, p, q) ==
  LET none == Len(s) + 1
      i == NextIn(L, q, none)
      j == NextIn(R, i + 1, none)
      k == NextIn(K, j + 2, none)
  IN IF i = none THEN SubSeq(s, p, Len(s))
     ELSE IF /\ j > i + 1
             /\ StartsAt(s, "(", j + 1)
             /\ k > j + 2
             /\ k # none
     THEN SubSeq(s, p, i - 1) \o "<a href=\"" \o SubSeq(s, j + 2, k - 1)
          \o "\">" \o SubSeq(s, i + 1, j - 1) \o "</a>"
          \o WrapLinks(s, L, R, K, k + 1, k + 1)
     ELSE WrapLinks(s, L, R, K, p, i + 1)

\* faulty variant of ReplaceLinks: the pattern without its g flag, which
\* is tried from the first [ only
ReplaceLinks_FirstOnly(s) ==
  LET L == Occurrences(s, "[")
  IN IF L = {} THEN s
     ELSE WrapLinks(s, {CHOOSE i \in L : \A j \in L : i <= j},
                    Occurrences(s, "]"), Occurrences(s, ")"), 1, 1)

\* .replace(/\[([^\]]+)\]\(([^)]+)\)/g, '<a href="$2">$1</a>')
ReplaceLinks(s) ==
  LET L == Occurrences(s, "[")
  IN IF L = {} THEN s
     ELSE WrapLinks(s, L, Occurrences(s, "]"), Occurrences(s, ")"), 1, 1)

\* faulty variant of ParagraphStart: two blank lines are needed before the
\* text
ParagraphStart_NeedsTwoBlankLines(ls, k) ==
  /\ k >= 3
  /\ k + 1 <= Len(ls)
  /\ ls[k] = ""
  /\ ls[k - 1] = ""
  /\ Len(ls[k + 1]) >= 2
  /\ CharAt(ls[k + 1], 1) \notin {"#", "<"}

\* .replace(/\n\n([^#\n<].+)/g, "\n<p>$1</p>"): an empty line that is not
\* the first one and is followed by a line of two or more characters, the
\* first of them neither # nor <, is dropped and the line after it wrapped
ParagraphStart(ls, k) ==
  /\ k >= 2
  /\ k + 1 <= Len(ls)
  /\ ls[k] = ""
  /\ Len(ls[k + 1]) >= 2
  /\ CharAt(ls[k + 1], 1) \notin {"#", "<"}

ReplaceParagraphs(s) ==
  LET ls == Split(s, "\n")
      n == Len(ls)
      Piece(k) ==
        IF ParagraphStart(ls, k) THEN ""
        ELSE (IF k > 1 THEN "\n" ELSE "")
             \o (IF k > 1 /\ ParagraphStart(ls, k - 1)
                 THEN "<p>" \o ls[k] \o "</p>" ELSE ls[k])
  IN JoinRange([k \in 1..n |-> Piece(k)], "", 1, n)

\* end of the longest run of items <li>.*?</li>(\n)? that starts at
\* position i, or 0 when no item starts there, O and C being the
\* occurrences of <li> and </li>; the s flag lets an item span lines
RECURSIVE ItemsEnd(_, _, _, _)
ItemsEnd(s, O, C, i) ==
  LET none == Len(s) + 1
      c == NextIn(C, i + 4, none)
      e == IF StartsAt(s, "\n", c + 5) THEN c + 5 ELSE c + 4
      more == ItemsEnd(s, O, C, e + 1)
  IN IF i \notin O \/ c = none THEN 0
     ELSE IF more > 0 THEN more ELSE e

RECURSIVE WrapLists(_, _, _, _)
WrapLists(s, O, C, p) ==
  LET none == Len(s) + 1
      i == NextIn(O, p, none)
      e == ItemsEnd(s, O, C, i)
  IN IF i = none \/ e = 0 THEN SubSeq(s, p, Len(s))
     ELSE SubSeq(s, p, i - 1) \o "<ul>" \o SubSeq(s, i, e) \o "</ul>"
          \o WrapLists(s, O, C, e + 1)

\* faulty variant of ReplaceLists: a greedy pattern, one element from the
\* first <li> to the last </li>
ReplaceLists_Greedy(s) ==
  LET O == Occurrences(s, "<li>")
      C == Occurrences(s, "</li>")
      i == CHOOSE x \in O : \A y \in O : x <= y
      e == (CHOOSE x \in C : \A y \in C : x >= y) + 4
  IN IF O = {} \/ C = {} THEN s
     ELSE SubSeq(s, 1, i - 1) \o "<ul>" \o SubSeq(s, i, e) \o "</ul>"
          \o SubSeq(s, e + 1, Len(s))

\* html.replace(/(<li>.*?<\/li>(\n)?)+/gs, "<ul>$&</ul>")
ReplaceLists(s) ==
  WrapLists(s, Occurrences(s, "<li>"), Occurrences(s, "</li>"), 1)

HtmlHead ==
  "<!DOCTYPE html>\n<html>\n<head>\n  <meta charset=\"UTF-8\">\n  <meta name=\"viewport\" content=\"width=device-width, initial-scale=1.0\">\n  <title>Generated Content</title>\n  <style>\n    body { \n      max-width: 800px; \n      margin: 2rem auto; \n      padding: 0 1rem; \n      font-family: system-ui, -apple-system, sans-serif; \n      line-height: 1.6; \n    }\n    pre { \n      background: #f5f5f5; \n      padding: 1rem; \n      overflow-x: auto; \n      margin: 1.5rem 0;\n    }\n    code { \n      background: #f5f5f5; \n      padding: 0.2rem 0.4rem; \n      border-radius: 3px; \n    }\n    ul { \n      margin: 1.5rem 0;\n      padding-left: 2rem;\n      list-style-type: disc;\n    }\n    li {\n      margin: 0;\n      padding: 0;\n      line-height: 1.5;\n    }\n    h1, h2, h3 { \n      margin-top: 2rem;\n      margin-bottom: 1rem;\n    }\n    p {\n      margin: 1rem 0;\n    }\n    /* Reset any inherited indentation */\n    ul + p,\n    ul + h1,\n    ul + h2,\n    ul + h3,\n    ul + pre {\n      margin-top: 1.5rem;\n      margin-left: 0;\n    }\n    a {\n      color: #2563eb;\n      text-decoration: none;\n    }\n    a:hover {\n      text-decoration: underline;\n    }\n  </style>\n</head>\n<body>\n  "

\* faulty variant of HtmlTail: the html element is left open
HtmlTail_Unclosed == "\n</body>\n"

HtmlTail == "\n</body>\n</html>"

markdownToHtml(markdown) ==
  LET h3 == ReplaceAtx(markdown)
      u1 == ReplaceSetext(h3, "=", "h1")
      u2 == ReplaceSetext(u1, "-", "h2")
      b1 == ReplacePairs(u2, "**", "strong")
      b2 == ReplacePairs(b1, "__", "strong")
      em == ReplacePairs(b2, "_", "em")
      c1 == ReplaceFences(em)
      c2 == ReplaceInlineCode(c1)
      li == ReplaceListItems(c2)
      a == ReplaceLinks(li)
      html == ReplaceParagraphs(a)
      wrapped == IF Contains(html, "<li>") THEN ReplaceLists(html) ELSE html
  IN HtmlHead \o wrapped \o HtmlTail

(***************************************************************************)
(* The host page.  A handler runs to completion before the next one        *)
(* starts, so every handler is enabled only at pc = "idle".  The callback  *)
(* of generateMarkdown runs generateContent, whose two loops are stepped:  *)
(* pc = "sample" is the while loop that fills headingPositions and         *)
(* pc = "block" is the for loop over the blocks, blk being its index i.    *)
(***************************************************************************)
\* parseInt(v): an optional sign and the longest run of decimal digits at
\* the start of v; NaN when there is no digit
DigitValue(c) == IndexFrom("0123456789", c, 1) - 1
IsDigit(c) == Len(c) = 1 /\ DigitValue(c) <= 9

RECURSIVE ParseDigits(_, _, _)
ParseDigits(s, p, acc) ==
  IF p <= Len(s) /\ IsDigit(CharAt(s, p))
  THEN ParseDigits(s, p + 1, 10 * acc + DigitValue(CharAt(s, p)))
  ELSE acc

parseInt(v) ==
  LET s == TrimLeft(v)
      neg == Len(s) > 0 /\ CharAt(s, 1) = "-"
      p == IF Len(s) > 0 /\ CharAt(s, 1) \in {"-", "+"} THEN 2 ELSE 1
      n == ParseDigits(s, p, 0)
  IN IF p <= Len(s) /\ IsDigit(CharAt(s, p))
     THEN [nan |-> FALSE, val |-> IF neg THEN 0 - n ELSE n]
     ELSE [nan |-> TRUE, val |-> 0]

\* parseInt(e.target.value) || 1
NumBlocksOf(v) ==
  LET n == parseInt(v) IN IF n.nan \/ n.val = 0 THEN 1 ELSE n.val

\* values the user types into the number-of-blocks field
TypedValues == {"", "0", "3", "11", "-3", "2.5"}

\* the text shown in the output panel
DisplayText(opts, text) ==
  IF opts.noWrapping THEN Join(Split(text, "\n"), " ") ELSE text

\* the output panel with the copy and download buttons is rendered
PanelShown == ~isLoading /\ generatedText # ""

HandleOptionChange(option) ==
  /\ pc = "idle"
  /\ ops < MaxOps
  /\ options' = [options EXCEPT ![option] = ~@]
  /\ ops' = ops + 1
  /\ UNCHANGED <<generatedText, isLoading, timers, pc, content,
                 headingPositions, blk, rng, clipboard, downloaded>>
  /\ UNCHANGED feedback
  /\ UNCHANGED conv
  /\ UNCHANGED click

NumBlocksChange(v) ==
  /\ pc = "idle"
  /\ ops < MaxOps
  /\ options' = [options EXCEPT !.numBlocks = NumBlocksOf(v)]
  /\ ops' = ops + 1
  /\ UNCHANGED <<generatedText, isLoading, timers, pc, content,
                 headingPositions, blk, rng, clipboard, downloaded>>
  /\ UNCHANGED feedback
  /\ UNCHANGED conv
  /\ UNCHANGED click

\* a Generate button that stays enabled while a generation is pending
generateMarkdown_AlwaysEnabled ==
  /\ pc = "idle"
  /\ ops < MaxOps
  /\ isLoading' = TRUE
  /\ timers' = timers + 1
  /\ ops' = ops + 1
  /\ clickOptions' = options
  /\ clickedSinceReset' = TRUE
  /\ UNCHANGED <<options, generatedText, pc, content, headingPositions,
                 blk, rng, clipboard, downloaded>>
  /\ UNCHANGED feedback
  /\ UNCHANGED conv

\* click on the Generate button, which is disabled while isLoading
generateMarkdown ==
  /\ pc = "idle"
  /\ ~isLoading
  /\ ops < MaxOps
  /\ isLoading' = TRUE
  /\ timers' = timers + 1
  /\ ops' = ops + 1
  /\ UNCHANGED <<options, generatedText, pc, content, headingPositions,
                 blk, rng, clipboard, downloaded>>
  /\ UNCHANGED feedback
  /\ UNCHANGED conv
  /\ clickOptions' = options
  /\ clickedSinceReset' = TRUE

\* the 800 ms timer fires: generateContent starts, emits the main heading
\* and enters the sampling loop
TimerFireOn(cfg) ==
  /\ pc = "idle"
  /\ timers > 0
  /\ timers' = timers - 1
  /\ LET h == MainHeading(cfg, rng)
     IN /\ content' = h.out
        /\ rng' = h.rng
  /\ headingPositions' = {}
  /\ pc' = "sample"
  /\ UNCHANGED <<options, generatedText, isLoading, blk, clipboard,
                 downloaded, ops>>
  /\ UNCHANGED feedback
  /\ UNCHANGED conv
  /\ UNCHANGED click

TimerFire == TimerFireOn(clickOptions)

\* one iteration of the while loop over headingPositions
SampleStepOn(cfg) ==
  /\ pc = "sample"
  /\ Cardinality(headingPositions) < numSubheadings(cfg.numBlocks)
  /\ headingPositions' =
       headingPositions \cup {RandFloor(rng, cfg.numBlocks)}
  /\ rng' = NextRng(rng)
  /\ UNCHANGED <<options, generatedText, isLoading, timers, pc, content,
                 blk, clipboard, downloaded, ops>>
  /\ UNCHANGED feedback
  /\ UNCHANGED conv
  /\ UNCHANGED click

SampleStep == SampleStepOn(clickOptions)

\* the while loop exits
SampleExitOn(cfg) ==
  /\ pc = "sample"
  /\ Cardinality(headingPositions) >= numSubheadings(cfg.numBlocks)
  /\ pc' = "block"
  /\ blk' = 0
  /\ UNCHANGED <<options, generatedText, isLoading, timers, content,
                 headingPositions, rng, clipboard, downloaded, ops>>
  /\ UNCHANGED feedback
  /\ UNCHANGED conv
  /\ UNCHANGED click

SampleExit == SampleExitOn(clickOptions)

\* one iteration of the for loop over the blocks
BlockStepOn(cfg) ==
  /\ pc = "block"
  /\ blk < cfg.numBlocks
  /\ LET b == BlockText(cfg, headingPositions, blk, rng)
     IN /\ content' = content \o b.out
        /\ rng' = b.rng
  /\ blk' = blk + 1
  /\ UNCHANGED <<options, generatedText, isLoading, timers, pc,
                 headingPositions, clipboard, downloaded, ops>>
  /\ UNCHANGED feedback
  /\ UNCHANGED conv
  /\ UNCHANGED click

BlockStep == BlockStepOn(clickOptions)

\* generateContent returns and the callback stores its result
GenReturnOn(cfg) ==
  /\ pc = "block"
  /\ blk >= cfg.numBlocks
  /\ generatedText' = content
  /\ isLoading' = FALSE
  /\ pc' = "idle"
  /\ content' = ""
  /\ headingPositions' = {}
  /\ blk' = 0
  /\ UNCHANGED <<options, timers, rng, clipboard, downloaded, ops>>
  /\ UNCHANGED feedback
  /\ UNCHANGED conv
  /\ UNCHANGED click

GenReturn == GenReturnOn(clickOptions)

\* a copy handler that takes the text from the output panel
copyToClipboard_CopiesDisplay ==
  /\ pc = "idle"
  /\ PanelShown
  /\ generatedText # ""
  /\ ops < MaxOps
  /\ clipboard' = DisplayText(options, generatedText)
  /\ copySuccess' = TRUE
  /\ copyTimers' = copyTimers + 1
  /\ ops' = ops + 1
  /\ UNCHANGED <<options, generatedText, isLoading, timers, pc, content,
                 headingPositions, blk, rng, downloaded, showResetToast,
                 resetTimers>>
  /\ UNCHANGED conv
  /\ UNCHANGED click

\* the writeText call or its fallback puts generatedText on the clipboard;
\* the handler then shows the feedback and starts the timer that hides it
copyToClipboard ==
  /\ pc = "idle"
  /\ PanelShown
  /\ generatedText # ""
  /\ ops < MaxOps
  /\ clipboard' = generatedText
  /\ copySuccess' = TRUE
  /\ copyTimers' = copyTimers + 1
  /\ ops' = ops + 1
  /\ UNCHANGED <<options, generatedText, isLoading, timers, pc, content,
                 headingPositions, blk, rng, downloaded, showResetToast,
                 resetTimers>>
  /\ UNCHANGED conv
  /\ UNCHANGED click

\* setTimeout(() => setCopySuccess(false), 2000)
CopyTimeout ==
  /\ pc = "idle"
  /\ copyTimers > 0
  /\ copyTimers' = copyTimers - 1
  /\ copySuccess' = FALSE
  /\ UNCHANGED <<options, generatedText, isLoading, timers, pc, content,
                 headingPositions, blk, rng, clipboard, downloaded, ops,
                 showResetToast, resetTimers>>
  /\ UNCHANGED conv
  /\ UNCHANGED click

\* faulty variant of downloadFile: converts whatever is not a .md file
downloadFile_ConvertsTxt(extension) ==
  /\ pc = "idle"
  /\ PanelShown
  /\ ops < MaxOps
  /\ downloaded' =
       [n |-> downloaded.n + 1,
        ext |-> extension,
        content |-> IF extension # ".md" THEN markdownToHtml(generatedText)
                    ELSE generatedText]
  /\ ops' = ops + 1
  /\ UNCHANGED <<options, generatedText, isLoading, timers, pc, content,
                 headingPositions, blk, rng, clipboard>>
  /\ UNCHANGED feedback
  /\ UNCHANGED conv
  /\ UNCHANGED click

\* click on one of the download buttons of the output panel: downloaded is
\* the file the browser saves, n counting the files saved so far
downloadFile(extension) ==
  /\ pc = "idle"
  /\ PanelShown
  /\ ops < MaxOps
  /\ downloaded' =
       [n |-> downloaded.n + 1,
        ext |-> extension,
        content |-> IF extension = ".html" THEN markdownToHtml(generatedText)
                    ELSE generatedText]
  /\ ops' = ops + 1
  /\ UNCHANGED <<options, generatedText, isLoading, timers, pc, content,
                 headingPositions, blk, rng, clipboard>>
  /\ UNCHANGED feedback
  /\ UNCHANGED conv
  /\ UNCHANGED click

resetOptions ==
  /\ pc = "idle"
  /\ ops < MaxOps
  /\ options' = DefaultOptions
  /\ generatedText' = ""
  /\ showResetToast' = TRUE
  /\ resetTimers' = resetTimers + 1
  /\ ops' = ops + 1
  /\ UNCHANGED <<isLoading, timers, pc, content, headingPositions, blk,
                 rng, clipboard, downloaded, copySuccess, copyTimers>>
  /\ UNCHANGED conv
  /\ clickedSinceReset' = FALSE
  /\ UNCHANGED clickOptions

\* setTimeout(() => setShowResetToast(false), 3000)
ResetToastTimeout ==
  /\ pc = "idle"
  /\ resetTimers > 0
  /\ resetTimers' = resetTimers - 1
  /\ showResetToast' = FALSE
  /\ UNCHANGED <<options, generatedText, isLoading, timers, pc, content,
                 headingPositions, blk, rng, clipboard, downloaded, ops,
                 copySuccess, copyTimers>>
  /\ UNCHANGED conv
  /\ UNCHANGED click

(***************************************************************************)
(* Specifications.                                                         *)
(***************************************************************************)
\* the configurations the generator is run on
ConfigOf(T, n) ==
  [f \in Flags \cup {"numBlocks"} |-> IF f = "numBlocks" THEN n ELSE f \in T]

\* the plain-text configuration: headings, lists, code and links all off
PlainFlags == {"noHeaders", "noLists", "noCodeSnippets", "noExternalLinks"}

GenConfigs ==
  {ConfigOf(T, n) : T \in {S \in SUBSET Flags : Cardinality(S) <= MaxFlags}
                           \cup {PlainFlags},
                    n \in 1..10}

Seeds == 0..MaxSeed

\* the page after construction
Init ==
  /\ options = DefaultOptions
  /\ generatedText = ""
  /\ isLoading = FALSE
  /\ timers = 0
  /\ pc = "idle"
  /\ content = ""
  /\ headingPositions = {}
  /\ blk = 0
  /\ rng \in 0..MaxHostSeed
  /\ clipboard = ""
  /\ downloaded = [n |-> 0, ext |-> "", content |-> ""]
  /\ ops = 0
  /\ copySuccess = FALSE
  /\ showResetToast = FALSE
  /\ copyTimers = 0
  /\ resetTimers = 0
  /\ mdText = ""
  /\ htmlText = ""
  /\ clickOptions = DefaultOptions
  /\ clickedSinceReset = FALSE

\* the checkboxes ticked in the runs of the page: one flag of each kind
\* (suppressing, heading form, link form, emphasis, display only)
HostFlags == {"noHeaders", "noLists", "underlinedHeaders", "referenceLinks",
              "strongStyle", "noWrapping"}

Next ==
  \/ \E option \in HostFlags : HandleOptionChange(option)
  \/ \E v \in TypedValues : NumBlocksChange(v)
  \/ generateMarkdown
  \/ TimerFire
  \/ SampleStep
  \/ SampleExit
  \/ BlockStep
  \/ GenReturn
  \/ copyToClipboard
  \/ \E extension \in {".md", ".txt", ".html"} : downloadFile(extension)
  \/ resetOptions
  \/ CopyTimeout
  \/ ResetToastTimeout

Spec == Init /\ [][Next]_vars

\* one call of generateContent on a configuration of GenConfigs: the page
\* right after a click on Generate
InitGen ==
  /\ options \in GenConfigs
  /\ generatedText = ""
  /\ isLoading = TRUE
  /\ timers = 1
  /\ pc = "idle"
  /\ content = ""
  /\ headingPositions = {}
  /\ blk = 0
  /\ rng \in Seeds
  /\ clipboard = ""
  /\ downloaded = [n |-> 0, ext |-> "", content |-> ""]
  /\ ops = 0
  /\ copySuccess = FALSE
  /\ showResetToast = FALSE
  /\ copyTimers = 0
  /\ resetTimers = 0
  /\ mdText = ""
  /\ htmlText = ""
  /\ clickOptions = options
  /\ clickedSinceReset = TRUE

NextGen == TimerFire \/ SampleStep \/ SampleExit \/ BlockStep \/ GenReturn

SpecGen == InitGen /\ [][NextGen]_vars

\* the pieces the texts given to markdownToHtml are made of: one for each
\* pattern of the conversion
InputPieces ==
  {"# ", "\n", "ab", "_", "**", Backtick, "* ", "<", "=", "[a](b)"}

\* a heading line, a blank line and one text line
Titles == {"Title", "Ab", "Two words"}
TextLines == {"Some text.", "ab", "One more line"}
ScenarioDoc(title, text) == "# " \o title \o "\n\n" \o text \o "\n"
ScenarioDocs == {ScenarioDoc(t, x) : t \in Titles, x \in TextLines}

\* the strings markdownToHtml is called on directly
HtmlInputs ==
  ScenarioDocs
  \cup UNION {{Join(f, "") : f \in [1..n -> InputPieces]} :
               n \in 0..MaxInputLen}

\* one call html = markdownToHtml(input)
toHtml(input) ==
  /\ pc = "idle"
  /\ htmlText = ""
  /\ mdText' = input
  /\ htmlText' = markdownToHtml(input)
  /\ UNCHANGED <<options, generatedText, isLoading, timers, pc, content,
                 headingPositions, blk, rng, clipboard, downloaded, ops>>
  /\ UNCHANGED feedback
  /\ UNCHANGED click

\* the flags generateContent reads: noInlineMarkup, noBlockquotes and
\* noWrapping do not change the text it returns
TextFlags == Flags \ {"noInlineMarkup", "noBlockquotes", "noWrapping"}

\* the configurations whose generated text is converted
HtmlConfigs == {c \in GenConfigs : \A f \in Flags \ TextFlags : ~c[f]}

\* markdownToHtml as a function: called on a string of HtmlInputs, or, as
\* downloadFile calls it, on the text a call of generateContent has stored
\* (one call per configuration of HtmlConfigs, the random source in state 0)
InitHtml ==
  \/ Init /\ rng = 0
  \/ InitGen /\ rng = 0 /\ options \in HtmlConfigs

NextHtml ==
  \/ TimerFire
  \/ SampleStep
  \/ SampleExit
  \/ BlockStep
  \/ GenReturn
  \/ PanelShown /\ toHtml(generatedText)
  \/ \E input \in HtmlInputs :
       ~isLoading /\ generatedText = "" /\ toHtml(input)

SpecHtml == InitHtml /\ [][NextHtml]_vars

(***************************************************************************)
(* Properties.                                                             *)
(***************************************************************************)
\* generateContent is about to return content
Returned == pc = "block" /\ blk >= options.numBlocks

IsUnderline(l) ==
  /\ Len(l) > 0
  /\ \/ \A i \in 1..Len(l) : CharAt(l, i) = "="
     \/ \A i \in 1..Len(l) : CharAt(l, i) = "-"
\* the values Math.floor(Math.random() * n) can take
DrawRange(n) == {RandFloor(r, n) : r \in 0..(RandDen - 1)}

\* C1: for numBlocks in 1..10 generateContent terminates: the sampling loop
\* is never in a state it cannot leave, that is, whenever it still needs a
\* position, some value the random source can draw is a new position.
C1_SamplingCanFinish ==
  (/\ pc = "sample"
   /\ options.numBlocks \in 1..10
   /\ Cardinality(headingPositions) < numSubheadings(options.numBlocks))
  => \E d \in DrawRange(options.numBlocks) : d \notin headingPositions

\* C2 as stated: with noHeaders the returned text has no line that begins
\* with "#" and no Setext underline line.
C2_NoHashLine ==
  (Returned /\ options.noHeaders)
  => \A l \in Range(Split(content, "\n")) :
       ~StartsWith(l, "#") /\ ~IsUnderline(l)

\* C2 amended: with noHeaders the returned text has no Setext underline
\* line, and a line that begins with "#" is the first line of the bash
\* example inside a fenced code block.
C2_NoHeadingLine ==
  (Returned /\ options.noHeaders)
  => LET ls == Split(content, "\n")
     IN \A k \in 1..Len(ls) :
          /\ ~IsUnderline(ls[k])
          /\ StartsWith(ls[k], "#")
             => /\ ls[k] = "#!/bin/bash"
                /\ k > 1
                /\ ls[k - 1] = Fence \o "bash"
                /\ options.codeBlocks
                /\ ~options.noCodeSnippets

C2_Witness ==
  /\ Returned
  /\ options.noHeaders
  /\ options.numBlocks >= 3
  /\ "#!/bin/bash" \in Range(Split(content, "\n"))

\* C3 as stated: with underlinedHeaders no line of the returned text begins
\* with "#".
C3_NoHashLine ==
  (Returned /\ options.underlinedHeaders)
  => \A l \in Range(Split(content, "\n")) : ~StartsWith(l, "#")

\* C3 amended: with underlinedHeaders a line of the returned text begins
\* with "#" only if it is the first line of the bash example inside a
\* fenced code block; no heading is written with "#".
C3_NoAtxHeading ==
  (Returned /\ options.underlinedHeaders)
  => LET ls == Split(content, "\n")
     IN \A k \in 1..Len(ls) :
          StartsWith(ls[k], "#")
          => /\ ls[k] = "#!/bin/bash"
             /\ k > 1
             /\ ls[k - 1] = Fence \o "bash"
             /\ options.codeBlocks
             /\ ~options.noCodeSnippets

C3_Witness ==
  /\ Returned
  /\ options.underlinedHeaders
  /\ ~options.noHeaders
  /\ LET ls == Split(content, "\n")
     IN /\ IsUnderline(ls[2])
        /\ \E k \in 1..Len(ls) : ls[k] = "#!/bin/bash"

\* C4: without underlinedHeaders no line made only of "=" or only of "-"
\* follows a text line in the returned text.
C4_NoSetextUnderline ==
  (Returned /\ ~options.underlinedHeaders)
  => LET ls == Split(content, "\n")
     IN \A k \in 2..Len(ls) : ~(IsUnderline(ls[k]) /\ ls[k - 1] # "")

C4_Witness ==
  /\ Returned
  /\ ~options.underlinedHeaders
  /\ ~options.noHeaders
  /\ options.numBlocks >= 3
  /\ \E l \in Range(Split(content, "\n")) : StartsWith(l, "## ")

\* the tokens of the returned text: its lines split on spaces
OutTokens == UNION {Range(Split(l, " ")) : l \in Range(Split(content, "\n"))}
HasUnderscore(t) == \E i \in 1..Len(t) : CharAt(t, i) = "_"
\* t is w wrapped in the marker m, w having no underscore
WrappedIn(t, m) ==
  /\ Len(t) >= 2 * Len(m)
  /\ StartsWith(t, m)
  /\ SubSeq(t, Len(t) - Len(m) + 1, Len(t)) = m
  /\ ~HasUnderscore(SubSeq(t, Len(m) + 1, Len(t) - Len(m)))

C6_NoListLine ==
  (Returned /\ options.noLists)
  => \A l \in Range(Split(content, "\n")) : ~StartsWith(l, "* ")

\* a call with noLists has passed block 1, where the list is due, and
\* returns a fenced code example
C6_Witness ==
  /\ Returned
  /\ options.noLists
  /\ options.codeBlocks
  /\ options.numBlocks >= 4
  /\ Contains(content, Fence)

\* C7: with noExternalLinks the returned text has no inline link, no
\* reference link and no reference definition line, whatever referenceLinks
\* is; in particular it does not contain "](http".
C7_NoLinks ==
  (Returned /\ options.noExternalLinks)
  => /\ ~Contains(content, "](http")
     /\ ~Contains(content, "][")
     /\ ~Contains(content, "link")
     /\ \A l \in Range(Split(content, "\n")) : ~StartsWith(l, "[")

C7_Witness ==
  /\ Returned
  /\ options.noExternalLinks
  /\ options.referenceLinks
  /\ options.numBlocks >= 4
  /\ content # ""

\* C8: the numBlocks of the options state is an integer of 1..10 at every
\* moment, and so when the generator reads it.
C8_NumBlocksInRange == options.numBlocks \in 1..10


\* the other configurations that differ from o only in noInlineMarkup and
\* noBlockquotes
NoOpVariants(o) ==
  {[o EXCEPT !.noInlineMarkup = a, !.noBlockquotes = b] : a, b \in BOOLEAN}
  \ {o}

\* C9: noInlineMarkup and noBlockquotes have no effect on generation: every
\* step of generateContent is the step the call takes from the same state
\* of the random source under any other setting of the two flags, so two
\* calls that differ only in these flags and see the same random draws
\* build the same text.
C9_NoOpFlags ==
  [][\A o2 \in NoOpVariants(options) :
       /\ (pc = "idle" /\ pc' = "sample")
          => LET h == MainHeading(o2, rng)
             IN content' = h.out /\ rng' = h.rng
       /\ (pc = "sample" /\ pc' = "sample")
          => /\ Cardinality(headingPositions) < numSubheadings(o2.numBlocks)
             /\ headingPositions' =
                  headingPositions \cup {RandFloor(rng, o2.numBlocks)}
       /\ (pc = "sample" /\ pc' = "block")
          => Cardinality(headingPositions) >= numSubheadings(o2.numBlocks)
       /\ (pc = "block" /\ pc' = "block")
          => LET b == BlockText(o2, headingPositions, blk, rng)
             IN /\ blk < o2.numBlocks
                /\ content' = content \o b.out
                /\ rng' = b.rng
       /\ (pc = "block" /\ pc' = "idle")
          => blk >= o2.numBlocks /\ generatedText' = content]_vars

C9_Witness ==
  /\ Returned
  /\ options.noInlineMarkup
  /\ options.emStyle
  /\ options.numBlocks >= 3
  /\ \E t \in OutTokens : Len(t) > 2 /\ WrappedIn(t, "_")

\* C10: noWrapping affects only the display.  Whenever the output panel is
\* shown, the displayed text has the length of generatedText and differs
\* from it exactly in showing a space for every newline when noWrapping is
\* set, and is generatedText itself otherwise.  A step that toggles
\* noWrapping leaves generatedText, the clipboard and the last download
\* unchanged; a copy puts generatedText itself on the clipboard and a
\* download delivers generatedText or its HTML conversion, whatever the
\* flag; and every step of generateContent is the step it would take with
\* noWrapping flipped.
C10_Displayed ==
  LET d == DisplayText(options, generatedText)
  IN IF options.noWrapping
     THEN /\ Len(d) = Len(generatedText)
          /\ \A i \in 1..Len(d) :
               CharAt(d, i) = IF CharAt(generatedText, i) = "\n" THEN " "
                              ELSE CharAt(generatedText, i)
     ELSE d = generatedText

C10_Step ==
  LET o2 == [options EXCEPT !.noWrapping = ~@]
      g2 == [clickOptions EXCEPT !.noWrapping = ~@]
  IN /\ (options' = o2 /\ resetTimers' = resetTimers)
          => UNCHANGED <<generatedText, clipboard, downloaded>>
     /\ copyTimers' = copyTimers + 1 => clipboard' = generatedText
     /\ downloaded'.n = downloaded.n + 1
          => downloaded'.content =
               IF downloaded'.ext = ".html" THEN markdownToHtml(generatedText)
               ELSE generatedText
     /\ (pc = "idle" /\ pc' = "sample")
          => LET h == MainHeading(g2, rng)
             IN content' = h.out /\ rng' = h.rng
     /\ (pc = "sample" /\ pc' = "sample")
          => /\ Cardinality(headingPositions) < numSubheadings(g2.numBlocks)
             /\ headingPositions' =
                  headingPositions \cup {RandFloor(rng, g2.numBlocks)}
     /\ (pc = "sample" /\ pc' = "block")
          => Cardinality(headingPositions) >= numSubheadings(g2.numBlocks)
     /\ (pc = "block" /\ pc' = "block")
          => LET b == BlockText(g2, headingPositions, blk, rng)
             IN blk < g2.numBlocks /\ content' = content \o b.out
                /\ rng' = b.rng
     /\ (pc = "block" /\ pc' = "idle")
          => blk >= g2.numBlocks /\ generatedText' = content

IsPlainText(text, n) ==
  LET ls == Split(text, "\n")
  IN /\ Len(ls) = 2 * n + 1
     /\ \A k \in 1..Len(ls) :
          IF k % 2 = 1 /\ k < Len(ls)
          THEN /\ Len(ls[k]) > 0
               /\ ~StartsWith(ls[k], "#")
               /\ ~StartsWith(ls[k], "* ")
               /\ ~StartsWith(ls[k], "[")
               /\ ~Contains(ls[k], Backtick)
               /\ ~Contains(ls[k], "link")
               /\ ~IsUnderline(ls[k])
          ELSE ls[k] = ""

\* C11: for every numBlocks in 1..10, with noHeaders, noLists,
\* noCodeSnippets and noExternalLinks all set, generateContent returns: its
\* sampling loop is never in a state no draw can leave, and the text it
\* returns is exactly numBlocks paragraphs, each followed by a blank line.
C11_PlainParagraphs ==
  (/\ options.numBlocks \in 1..10
   /\ \A f \in PlainFlags : options[f])
  => /\ (/\ pc = "sample"
         /\ Cardinality(headingPositions) < numSubheadings(options.numBlocks))
        => \E d \in DrawRange(options.numBlocks) : d \notin headingPositions
     /\ Returned => IsPlainText(content, options.numBlocks)

\* the text the step of the block loop appends to content
Appended == SubSeq(content', Len(content) + 1, Len(content'))

\* C12: with noCodeSnippets = false the step of block i appends a code
\* snippet exactly when i % 5 = 2.  With codeBlocks the snippet is a fence
\* line carrying one of the tags javascript, bash, python, sql, the whole
\* example, and a closing fence line; without codeBlocks it is the first
\* line of the example between two single backticks.  So a text returned
\* for numBlocks = 10 with codeBlocks holds a fenced block.
C12_Step ==
  (pc = "block" /\ pc' = "block" /\ ~options.noCodeSnippets)
  => LET due == blk % 5 = 2
     IN /\ Contains(Appended, Backtick) <=> due
        /\ (due /\ options.codeBlocks)
           => /\ Cardinality(Occurrences(Appended, Fence)) = 2
              /\ \E e \in Range(codeExamples) :
                   /\ e.lang \in {"javascript", "bash", "python", "sql"}
                   /\ Contains(Appended, "\n" \o Fence \o e.lang \o "\n"
                                 \o e.code \o "\n" \o Fence \o "\n")
        /\ (due /\ ~options.codeBlocks)
           => /\ Cardinality(Occurrences(Appended, Backtick)) = 2
              /\ \E e \in Range(codeExamples) :
                   \E n \in 1..(Len(e.code) - 1) :
                     /\ CharAt(e.code, n + 1) = "\n"
                     /\ ~Contains(SubSeq(e.code, 1, n), "\n")
                     /\ Contains(Appended, "\n" \o Backtick
                                   \o SubSeq(e.code, 1, n) \o Backtick \o "\n")

C12_CodeSnippets ==
  /\ [][C12_Step]_vars
  /\ [](( /\ Returned
          /\ options.numBlocks = 10
          /\ options.codeBlocks
          /\ ~options.noCodeSnippets) => Contains(content, Fence))

\* a text returned for numBlocks = 10 with the fenced snippets of blocks 2
\* and 7
C12_Witness ==
  /\ Returned
  /\ options.numBlocks = 10
  /\ options.codeBlocks
  /\ ~options.noCodeSnippets
  /\ Cardinality(Occurrences(content, Fence)) = 4

EndsWith(s, t) ==
  Len(s) >= Len(t) /\ SubSeq(s, Len(s) - Len(t) + 1, Len(s)) = t

\* what a returned page carries between <body> and </body>
BodyOf(page) == SubSeq(page, Len(HtmlHead) + 1, Len(page) - Len(HtmlTail))

\* page is a complete HTML document: doctype, html, head and body elements,
\* each opened once and closed
CompleteDocument(page) ==
  /\ StartsWith(page, "<!DOCTYPE html>\n<html>\n<head>\n")
  /\ Contains(page, "</head>\n<body>\n")
  /\ EndsWith(page, "\n</body>\n</html>")

\* C13: markdownToHtml applied to a document made of the heading line
\* "# " title, a blank line and one text line of two or more characters
\* that begins with a letter (such as "# Title\n\nSome text.\n") returns a
\* complete HTML document whose body contains <h1>title</h1> and the text
\* line wrapped as <p>text</p>.
C13_HeadingAndParagraph ==
  \A t \in Titles, x \in TextLines :
    (mdText = ScenarioDoc(t, x) /\ htmlText # "")
    => /\ CompleteDocument(htmlText)
       /\ Contains(BodyOf(htmlText), "<h1>" \o t \o "</h1>")
       /\ Contains(BodyOf(htmlText), "<p>" \o x \o "</p>")
       /\ ~Contains(BodyOf(htmlText), "#")

C13_Witness ==
  /\ mdText = "# Title\n\nSome text.\n"
  /\ BodyOf(htmlText) = "<h1>Title</h1>\n<p>Some text.</p>\n"

\* C14: every call of markdownToHtml returns, on each string it is given
\* directly and on the text generateContent returned for each
\* configuration; the string returned starts with <!DOCTYPE html>, ends
\* with </html>, and is the fixed template with the converted text between
\* its <body> and </body>.
C14_AlwaysADocument ==
  /\ (pc = "idle" /\ mdText # "") => htmlText # ""
  /\ htmlText # ""
     => /\ StartsWith(htmlText, "<!DOCTYPE html>")
        /\ EndsWith(htmlText, "</html>")
        /\ StartsWith(htmlText, HtmlHead)
        /\ EndsWith(HtmlHead, "<body>\n  ")
        /\ EndsWith(htmlText, "\n</body>\n</html>")
        /\ Len(htmlText) >= Len(HtmlHead) + Len("\n</body>\n</html>")

\* the conversion of a ten-block text stored by generateContent
C14_Witness ==
  /\ PanelShown
  /\ options.numBlocks = 10
  /\ mdText = generatedText
  /\ Contains(BodyOf(htmlText), "<p>")
  /\ EndsWith(htmlText, "</html>")

\* the blocks of the converted text in which a link is due
LinkBlocks == {i \in 0..(options.numBlocks - 1) : i % 3 = 0}
Count(s, d) == Cardinality(Occurrences(s, d))

\* C15: markdownToHtml converts inline links only.  In the conversion of a
\* text generated with referenceLinks there is no <a> element, and every
\* reference [reference link][N] and definition line [N]: url of the text
\* is in the page as it was written; in the conversion of a text generated
\* without referenceLinks and without noExternalLinks every inline link has
\* become exactly one <a href="https://example.com/pageN">inline link</a>
\* and no other anchor exists.
C15_InlineLinksOnly ==
  (PanelShown /\ htmlText # "" /\ mdText = generatedText)
  => LET body == BodyOf(htmlText)
     IN /\ options.referenceLinks
           => /\ ~Contains(htmlText, "<a ")
              /\ ~Contains(htmlText, "</a>")
              /\ ~options.noExternalLinks
                 => \A i \in LinkBlocks :
                      LET N == NatToString(i + 1)
                          use == "See [reference link][" \o N
                                 \o "] for more information."
                          def == "[" \o N \o "]: https://example.com/ref" \o N
                      IN /\ Count(mdText, use) = 1
                         /\ Count(body, use) = 1
                         /\ Count(mdText, "\n" \o def \o "\n") = 1
                         /\ Count(body, def) = 1
        /\ (~options.referenceLinks /\ ~options.noExternalLinks)
           => /\ \A i \in LinkBlocks :
                   LET N == NatToString(i + 1)
                   IN /\ Count(mdText, "[inline link](https://example.com/page"
                                       \o N \o ")") = 1
                      /\ Count(body, "See <a href=\"https://example.com/page"
                                     \o N \o "\">inline link</a> for more") = 1
              /\ Count(body, "<a ") = Cardinality(LinkBlocks)
              /\ Count(body, "</a>") = Cardinality(LinkBlocks)
              /\ ~Contains(body, "](")

\* the conversion of a ten-block text with its four references
C15_Witness ==
  /\ PanelShown
  /\ options.referenceLinks
  /\ ~options.noExternalLinks
  /\ options.numBlocks = 10
  /\ mdText = generatedText
  /\ Contains(BodyOf(htmlText), "<p>[10]: https://example.com/ref10</p>")

\* C16: a download with extension .html delivers markdownToHtml of
\* generatedText and a download with extension .md or .txt delivers
\* generatedText itself; a download and a copy leave generatedText and the
\* options as they are; and while generatedText is empty no copy takes
\* place: the clipboard keeps its content and no copy feedback starts.
C16_Step ==
  /\ downloaded'.n = downloaded.n + 1
        => /\ downloaded'.ext \in {".md", ".txt", ".html"}
           /\ downloaded'.ext = ".html"
                => /\ downloaded'.content = markdownToHtml(generatedText)
                   /\ CompleteDocument(downloaded'.content)
           /\ downloaded'.ext # ".html"
                => downloaded'.content = generatedText
           /\ UNCHANGED <<generatedText, options, clipboard>>
  /\ copyTimers' = copyTimers + 1
        => /\ clipboard' = generatedText
           /\ UNCHANGED <<generatedText, options, downloaded>>
  /\ generatedText = ""
        => /\ clipboard' = clipboard
           /\ copyTimers' <= copyTimers
           /\ copySuccess' => copySuccess

C16_DownloadAndCopyFrame == [][C16_Step]_vars

\* the page after an .html download and a copy of the same text
C16_Witness ==
  /\ downloaded.ext = ".html"
  /\ clipboard = generatedText
  /\ generatedText # ""
  /\ CompleteDocument(downloaded.content)
  /\ Contains(downloaded.content, "<p>")

\* C17: for every numBlocks in 1..10 the number of positions the sampling
\* loop asks for does not exceed numBlocks, and once the loop has exited
\* headingPositions has exactly max(3, floor(numBlocks / 4)) elements, all
\* of them integers of 0 .. numBlocks - 1.
C17_PositionsSampled ==
  options.numBlocks \in 1..10
  => /\ pc = "sample"
        => numSubheadings(options.numBlocks) <= options.numBlocks
     /\ pc = "block"
        => /\ Cardinality(headingPositions)
                = Max2(3, options.numBlocks \div 4)
           /\ headingPositions \subseteq 0..(options.numBlocks - 1)

\* line k of ls is the first line of a heading of level 1 (main = TRUE) or
\* of a subheading (main = FALSE): an ATX line, or a text line followed by
\* its Setext underline
IsHeadingAt(ls, k, main) ==
  \/ IF main THEN StartsWith(ls[k], "# ")
     ELSE StartsWith(ls[k], "## ") \/ StartsWith(ls[k], "### ")
  \/ /\ k < Len(ls)
     /\ ls[k] # ""
     /\ ls[k + 1] # ""
     /\ \A i \in 1..Len(ls[k + 1]) :
          CharAt(ls[k + 1], i) = IF main THEN "=" ELSE "-"

HeadingCount(ls, main) ==
  Cardinality({k \in 1..Len(ls) : IsHeadingAt(ls, k, main)})

\* C18: for numBlocks in 3..10 without noHeaders every returned text has
\* exactly one level-1 heading, which is its first element, and exactly 3
\* subheadings, whatever was drawn; and the step of block i writes a
\* subheading in front of its paragraph exactly when i is a sampled
\* position.
C18_Returned ==
  (Returned /\ ~options.noHeaders /\ options.numBlocks \in 3..10)
  => LET ls == Split(content, "\n")
     IN /\ IsHeadingAt(ls, 1, TRUE)
        /\ HeadingCount(ls, TRUE) = 1
        /\ HeadingCount(ls, FALSE) = 3

C18_Step ==
  (/\ pc = "block"
   /\ pc' = "block"
   /\ ~options.noHeaders
   /\ options.numBlocks \in 3..10)
  => \A ls \in {Split(Appended, "\n")} :
       /\ IsHeadingAt(ls, 1, FALSE) <=> blk \in headingPositions
       /\ HeadingCount(ls, FALSE)
            = IF blk \in headingPositions THEN 1 ELSE 0
       /\ HeadingCount(ls, TRUE) = 0

C18_HeadingCount == []C18_Returned /\ [][C18_Step]_vars

\* a ten-block text with three subheadings, one of them of level 3
C18_Witness ==
  /\ Returned
  /\ ~options.noHeaders
  /\ options.numBlocks = 10
  /\ Cardinality(headingPositions) = 3
  /\ LET ls == Split(content, "\n")
     IN /\ \E k \in 1..Len(ls) : StartsWith(ls[k], "### ")
        /\ HeadingCount(ls, FALSE) = 3

\* the lines of ls that belong to each kind of element of a block
HeadingLines(ls) ==
  IF ~IsHeadingAt(ls, 1, FALSE) THEN {}
  ELSE IF StartsWith(ls[1], "#") THEN {1} ELSE {1, 2}
ListLines(ls) == {k \in 1..Len(ls) : StartsWith(ls[k], "* ")}
LinkLines(ls) ==
  {k \in 1..Len(ls) : StartsWith(ls[k], "See [") \/ StartsWith(ls[k], "[")}
CodeLines(ls) ==
  LET B == {k \in 1..Len(ls) : Contains(ls[k], Backtick)}
  IN {k \in 1..Len(ls) : (\E a \in B : a <= k) /\ (\E b \in B : k <= b)}
ParagraphLines(ls) ==
  {k \in 1..Len(ls) : ls[k] # ""}
  \ (HeadingLines(ls) \cup ListLines(ls) \cup LinkLines(ls) \cup CodeLines(ls))
Before(A, B) == \A a \in A, b \in B : a < b

\* C19: the returned text is the main heading, if any, followed by the
\* blocks 0 .. numBlocks - 1 in ascending order: each step of the loop
\* appends the text of the next block to what is already written, a link it
\* writes carries the number of its block, and the call returns after block
\* numBlocks - 1.  The text of a block has exactly one paragraph, and its
\* elements stand in the order subheading, paragraph, list, code snippet,
\* link.
C19_Step ==
  /\ (pc = "sample" /\ pc' = "block")
     => /\ blk' = 0
        /\ content' = content
        /\ \A ls \in {Split(content, "\n")} :
             IF options.noHeaders THEN content = ""
             ELSE /\ IsHeadingAt(ls, 1, TRUE)
                  /\ Len(ls) = IF StartsWith(content, "# ") THEN 3 ELSE 4
  /\ (pc = "block" /\ pc' = "block")
     => /\ blk' = blk + 1
        /\ blk < options.numBlocks
        /\ SubSeq(content', 1, Len(content)) = content
        /\ \A ls \in {Split(Appended, "\n")} :
             /\ Cardinality(ParagraphLines(ls)) = 1
             /\ Before(HeadingLines(ls), ParagraphLines(ls))
             /\ Before(HeadingLines(ls), ListLines(ls))
             /\ Before(HeadingLines(ls), CodeLines(ls))
             /\ Before(HeadingLines(ls), LinkLines(ls))
             /\ Before(ParagraphLines(ls), ListLines(ls))
             /\ Before(ParagraphLines(ls), CodeLines(ls))
             /\ Before(ParagraphLines(ls), LinkLines(ls))
             /\ Before(ListLines(ls), CodeLines(ls))
             /\ Before(ListLines(ls), LinkLines(ls))
             /\ Before(CodeLines(ls), LinkLines(ls))
             /\ \A k \in LinkLines(ls) :
                  \/ StartsWith(ls[k], "See [reference link]["
                                        \o NatToString(blk + 1) \o "] ")
                  \/ StartsWith(ls[k], "[" \o NatToString(blk + 1) \o "]: ")
                  \/ StartsWith(ls[k], "See [inline link](https://example.com/page"
                                        \o NatToString(blk + 1) \o ") ")
  /\ (pc = "block" /\ pc' = "idle")
     => blk = options.numBlocks /\ generatedText' = content

C19_BlockOrder == [][C19_Step]_vars

\* a returned ten-block text that holds all five kinds of element: three
\* subheadings, paragraphs, lists, code snippets and links up to block 9
C19_Witness ==
  /\ Returned
  /\ options.numBlocks = 10
  /\ Cardinality(headingPositions) = 3
  /\ ~options.noHeaders
  /\ Contains(content, "\n\n* Sanguine")
  /\ Contains(content, Backtick)
  /\ Contains(content, "\n\nSee [inline link](https://example.com/page10)")

\* C20: with noLists = false the step of block i appends the bullet list
\* exactly when i % 4 = 1; the list is always the same three lines that
\* begin with "* ", followed by a blank line, whatever emStyle, strongStyle
\* and capitalizeSentences are.
C20_Step ==
  (pc = "block" /\ pc' = "block" /\ ~options.noLists)
  => \A added \in {Appended} :
       \A ls \in {Split(added, "\n")} :
         IF blk % 4 = 1
         THEN /\ \E k \in 1..(Len(ls) - 3) :
                   /\ ListLines(ls) = {k, k + 1, k + 2}
                   /\ ls[k - 1] = ""
                   /\ ls[k] = "* Sanguine mendaci in supplex vertitur moenia"
                   /\ ls[k + 1] = "* Quae nec frondes linguae"
                   /\ ls[k + 2] = "* Hoc adalah medendi tamen"
                   /\ ls[k + 3] = ""
              /\ Count(added, "*") = 3
         ELSE ListLines(ls) = {} /\ ~Contains(added, "Sanguine")

C20_FixedList == [][C20_Step]_vars

\* a text with emphasised and capitalised paragraphs and the lists of
\* blocks 1 and 5
C20_Witness ==
  /\ Returned
  /\ ~options.noLists
  /\ options.emStyle
  /\ options.capitalizeSentences
  /\ options.numBlocks \in 6..9
  /\ Count(content, "\n\n* Sanguine mendaci in supplex vertitur moenia\n"
                     \o "* Quae nec frondes linguae\n"
                     \o "* Hoc adalah medendi tamen\n\n") = 2

\* C21: with noExternalLinks = false the step of block i appends a link
\* exactly when i % 3 = 0, numbered N = i + 1.  With referenceLinks it is
\* the reference [reference link][N] followed in the same block by exactly
\* one definition line [N]: https://example.com/refN; without, it is the
\* inline link to https://example.com/pageN and no definition line.  In the
\* returned text every reference has exactly one definition with its
\* number and no number is used twice.
C21_Step ==
  (pc = "block" /\ pc' = "block" /\ ~options.noExternalLinks)
  => \A added \in {Appended} :
       LET N == NatToString(blk + 1)
       IN IF blk % 3 # 0
          THEN /\ ~Contains(added, "link")
               /\ ~Contains(added, "](")
               /\ ~Contains(added, "]: ")
               /\ ~Contains(added, "https://")
          ELSE IF options.referenceLinks
          THEN /\ Count(added, "See [reference link][" \o N
                               \o "] for more information.\n\n[" \o N
                               \o "]: https://example.com/ref" \o N \o "\n") = 1
               /\ EndsWith(added, "https://example.com/ref" \o N \o "\n")
               /\ Count(added, "[reference link]") = 1
               /\ Count(added, "]: ") = 1
               /\ Count(added, "https://") = 1
               /\ ~Contains(added, "](")
          ELSE /\ Count(added, "See [inline link](https://example.com/page"
                               \o N \o ") for more information.\n\n") = 1
               /\ Count(added, "[inline link]") = 1
               /\ Count(added, "https://") = 1
               /\ ~Contains(added, "]: ")
               /\ ~Contains(added, "][")

C21_Returned ==
  (Returned /\ ~options.noExternalLinks /\ options.referenceLinks)
  => \A n \in 1..10 :
       LET N == NatToString(n)
           uses == Count(content, "[reference link][" \o N \o "]")
           defs == Count(content, "\n[" \o N \o "]: ")
       IN /\ uses = defs
          /\ uses = IF n <= options.numBlocks /\ (n - 1) % 3 = 0 THEN 1 ELSE 0

C21_Links == []C21_Returned /\ [][C21_Step]_vars

\* a ten-block text with the references 1, 4, 7 and 10 and their
\* definition lines
C21_Witness ==
  /\ Returned
  /\ options.referenceLinks
  /\ ~options.noExternalLinks
  /\ options.numBlocks = 10
  /\ Count(content, "[reference link][") = 4
  /\ EndsWith(content, "\n\n[10]: https://example.com/ref10\n")

\* the phrase of the heading whose first line is l
PhraseOf(l) ==
  IF StartsWith(l, "### ") THEN SubSeq(l, 5, Len(l))
  ELSE IF StartsWith(l, "## ") THEN SubSeq(l, 4, Len(l))
  ELSE IF StartsWith(l, "# ") THEN SubSeq(l, 3, Len(l))
  ELSE l

\* phrase is 4 to 10 words of latinWords, pairwise distinct, joined by
\* single spaces, and has the number of words drawn at state r of the
\* random source
IsHeadingPhrase(phrase, r) ==
  \A ws \in {Split(phrase, " ")} :
    /\ Len(ws) \in 4..10
    /\ Len(ws) = RandFloor(r, 7) + 4
    /\ \A k \in 1..Len(ws) : ws[k] \in Range(latinWords)
    /\ \A j, k \in 1..Len(ws) : j < k => ws[j] # ws[k]

\* C22: every phrase generateRandomHeading returns, for the main heading
\* and for each subheading, is 4 to 10 words of the heading word list,
\* pairwise distinct and joined by single spaces; the loop stops at the
\* number of words drawn, which the list, holding more than 10 distinct
\* words, can always supply.
C22_Step ==
  /\ Cardinality(Range(latinWords)) > 10
  /\ (pc = "idle" /\ pc' = "sample" /\ ~options.noHeaders)
     => \A ls \in {Split(content', "\n")} :
          IsHeadingPhrase(PhraseOf(ls[1]), rng)
  /\ (/\ pc = "block"
      /\ pc' = "block"
      /\ ~options.noHeaders
      /\ blk \in headingPositions)
     => \A ls \in {Split(Appended, "\n")} :
          IsHeadingPhrase(PhraseOf(ls[1]), NextRng(rng))

\* the same for a call from every state of the random source
C22_AllDraws ==
  \A r \in 0..(RandDen - 1) :
    IsHeadingPhrase(generateRandomHeading(r).out, r)

C22_HeadingPhrases == []C22_AllDraws /\ [][C22_Step]_vars

\* a returned text with a subheading of ten words
C22_Witness ==
  /\ Returned
  /\ ~options.noHeaders
  /\ \E l \in Range(Split(content, "\n")) :
       /\ StartsWith(l, "## ") \/ StartsWith(l, "### ")
       /\ Len(Split(PhraseOf(l), " ")) = 10

\* C23: the emphasis pass touches paragraph text only.  A text returned
\* with emStyle and strongStyle both unset has no underscore; under every
\* configuration no heading, list item, code snippet or link line has an
\* underscore; and a token of a paragraph that has one is wrapped in
\* exactly one form, _token_ under emStyle and __token__ otherwise, never
\* in both.
C23_Returned ==
  (Returned /\ ~options.emStyle /\ ~options.strongStyle)
  => ~Contains(content, "_")

C23_Step ==
  /\ (pc = "idle" /\ pc' = "sample") => ~Contains(content', "_")
  /\ (pc = "block" /\ pc' = "block")
     => \A ls \in {Split(Appended, "\n")} :
          /\ \A k \in (1..Len(ls)) \ ParagraphLines(ls) :
               ~Contains(ls[k], "_")
          /\ \A k \in ParagraphLines(ls) :
               \A t \in Range(Split(ls[k], " ")) :
                 HasUnderscore(t)
                 => /\ options.emStyle \/ options.strongStyle
                    /\ WrappedIn(t, IF options.emStyle THEN "_" ELSE "__")

C23_EmphasisInParagraphsOnly == []C23_Returned /\ [][C23_Step]_vars

\* a returned text with headings, a list, a fenced example and links whose
\* paragraphs carry __word__ tokens
C23_Witness ==
  /\ Returned
  /\ options.strongStyle
  /\ ~options.emStyle
  /\ options.codeBlocks
  /\ options.numBlocks = 10
  /\ \E t \in OutTokens : Len(t) > 4 /\ WrappedIn(t, "__")

\* the words a paragraph is made of, bare or carrying the period that ends
\* a sentence
IsBodyWord(w) ==
  \E v \in Range(words) :
    \E b \in {v, Capitalize(v)} : w = b \/ w = b \o "."

\* C24: every token the emphasis pass has wrapped is a non-empty word of
\* the body vocabulary, possibly with its period: the split of the
\* paragraph on spaces offers no empty token, so the text the step of a
\* block appends has no bare __ or ____ that wraps nothing.
C24_Step ==
  (pc = "block" /\ pc' = "block")
  => \A ls \in {Split(Appended, "\n")} :
       \A k \in ParagraphLines(ls) :
         \A t \in Range(Split(ls[k], " ")) :
           HasUnderscore(t)
           => \A m \in {IF options.emStyle THEN 1 ELSE 2} :
                /\ Len(t) > 2 * m
                /\ IsBodyWord(SubSeq(t, m + 1, Len(t) - m))

C24_NoEmptyWrap == [][C24_Step]_vars

\* phrase is made of words of the heading word list
IsLatinPhrase(phrase) ==
  \A w \in Range(Split(phrase, " ")) : w \in Range(latinWords)

\* C25: with underlinedHeaders the main heading is its phrase followed by
\* a line of "=" as long as the phrase, and every subheading its phrase
\* followed by a line of "-" as long as the phrase, whether level 2 or 3
\* was drawn; without underlinedHeaders the main heading is "# " and the
\* phrase, and a subheading "## " or "### " and the phrase, according to
\* the level drawn.
C25_Step ==
  /\ (pc = "idle" /\ pc' = "sample" /\ ~options.noHeaders)
     => \A ls \in {Split(content', "\n")} :
          IF options.underlinedHeaders
          THEN /\ IsLatinPhrase(ls[1])
               /\ Len(ls[2]) = Len(ls[1])
               /\ \A i \in 1..Len(ls[2]) : CharAt(ls[2], i) = "="
               /\ ls[3] = ""
          ELSE /\ StartsWith(ls[1], "# ")
               /\ IsLatinPhrase(SubSeq(ls[1], 3, Len(ls[1])))
               /\ ls[2] = ""
  /\ (/\ pc = "block"
      /\ pc' = "block"
      /\ ~options.noHeaders
      /\ blk \in headingPositions)
     => \A ls \in {Split(Appended, "\n")} :
          IF options.underlinedHeaders
          THEN /\ IsLatinPhrase(ls[1])
               /\ Len(ls[2]) = Len(ls[1])
               /\ \A i \in 1..Len(ls[2]) : CharAt(ls[2], i) = "-"
               /\ ls[3] = ""
          ELSE \A mark \in {IF 10 * rng < 3 * RandDen THEN "### " ELSE "## "} :
                 /\ StartsWith(ls[1], mark)
                 /\ IsLatinPhrase(SubSeq(ls[1], Len(mark) + 1, Len(ls[1])))
                 /\ ls[2] = ""

C25_HeadingForms == [][C25_Step]_vars

\* a returned text with a Setext main heading and three Setext subheadings
C25_Witness ==
  /\ Returned
  /\ options.underlinedHeaders
  /\ ~options.noHeaders
  /\ \A ls \in {Split(content, "\n")} :
       /\ IsLatinPhrase(ls[1])
       /\ ls[2] = Repeat("=", Len(ls[1]))
       /\ HeadingCount(ls, FALSE) = 3
       /\ \E k \in 2..Len(ls) :
            Len(ls[k]) > 0 /\ ls[k] = Repeat("-", Len(ls[k - 1]))

\* the blocks of the converted text in which the list is due
ListBlocks ==
  IF options.noLists THEN {}
  ELSE {i \in 0..(options.numBlocks - 1) : i % 4 = 1}

\* C26: in the conversion of a generated text every bullet list is exactly
\* one <ul> element holding exactly its three <li> items: there are as
\* many <ul> and </ul> as lists, every <li> is one of the three items
\* inside such an element, and a text without list gives no <ul>.
C26_OneUlPerList ==
  (PanelShown /\ htmlText # "" /\ mdText = generatedText)
  => \A body \in {BodyOf(htmlText)} :
       /\ Count(mdText, "\n* Sanguine") = Cardinality(ListBlocks)
       /\ Count(body, "<ul>") = Cardinality(ListBlocks)
       /\ Count(body, "</ul>") = Cardinality(ListBlocks)
       /\ Count(body, "<li>") = 3 * Cardinality(ListBlocks)
       /\ Count(body, "</li>") = 3 * Cardinality(ListBlocks)
       /\ Count(body, "<ul><li>Sanguine mendaci in supplex vertitur moenia</li>\n"
                      \o "<li>Quae nec frondes linguae</li>\n"
                      \o "<li>Hoc adalah medendi tamen</li>\n</ul>")
            = Cardinality(ListBlocks)

\* the conversion of a ten-block text with the lists of blocks 1, 5 and 9
C26_Witness ==
  /\ PanelShown
  /\ mdText = generatedText
  /\ options.numBlocks = 10
  /\ options.codeBlocks
  /\ Count(htmlText, "<ul>") = 3

\* the number of <p> elements of a converted body that hold a generated
\* paragraph: every <p> but those of a link sentence ("See ...") and of a
\* reference definition ("[..."), with which no paragraph begins
WrappedParagraphs(body) ==
  Count(body, "<p>") - Count(body, "<p>See ") - Count(body, "<p>[")

\* C27: in the conversion of a generated text every paragraph of the
\* generator is wrapped in a <p> element, under every configuration: the
\* page has one paragraph element for each of the numBlocks blocks.
C27_EveryParagraphWrapped ==
  (PanelShown /\ htmlText # "" /\ mdText = generatedText)
  => WrappedParagraphs(BodyOf(htmlText)) = options.numBlocks

\* C28: generation in the host is single-flight.  In every state at most
\* one generation timer is pending, and isLoading is true exactly from the
\* click until the callback of the timer has stored its result.  A click on
\* Generate is taken only while isLoading is false and leaves one timer
\* pending; generatedText changes to a non-empty text only when
\* generateContent returns, to the text it has just built, and the same
\* step sets isLoading to false; the text is kept while a generation is
\* pending; a copy or a download happens only while the panel is shown,
\* that is while isLoading is false and generatedText is non-empty.
C28_State ==
  /\ timers \in {0, 1}
  /\ isLoading <=> (timers = 1 \/ pc # "idle")
  /\ pc # "idle" => timers = 0
  /\ PanelShown => (pc = "idle" /\ timers = 0)

C28_Step ==
  /\ timers' = timers + 1 => (~isLoading /\ isLoading' /\ timers' = 1)
  /\ (isLoading /\ ~isLoading')
       => (pc = "block" /\ pc' = "idle" /\ generatedText' = content)
  /\ (generatedText' # generatedText /\ generatedText' # "")
       => (pc = "block" /\ pc' = "idle" /\ generatedText' = content
           /\ ~isLoading')
  /\ (clipboard' # clipboard \/ copyTimers' = copyTimers + 1
        \/ downloaded' # downloaded)
       => (~isLoading /\ generatedText # "")

C29_ResetDurable == generatedText # "" => clickedSinceReset

(***************************************************************************)
(* The Vue page.  Its generator functions are those of index.html with     *)
(* options.value for options; options is a ref, so the timer callback      *)
(* reads the values the ref holds when generateContent runs.               *)
(***************************************************************************)
\* v-model="options[key]" on the checkbox of a flag
VueToggle(option) ==
  /\ pc = "idle"
  /\ ops < MaxOps
  /\ options' = [options EXCEPT ![option] = ~@]
  /\ ops' = ops + 1
  /\ UNCHANGED <<generatedText, isLoading, timers, pc, content,
                 headingPositions, blk, rng, clipboard, downloaded>>
  /\ UNCHANGED feedback
  /\ UNCHANGED conv
  /\ UNCHANGED click

\* whole numbers typed into the number-of-blocks field
VueTypedNumbers == {3, 5}

\* v-model.number="options.numBlocks"
VueNumBlocksInput(n) ==
  /\ pc = "idle"
  /\ ops < MaxOps
  /\ options' = [options EXCEPT !.numBlocks = n]
  /\ ops' = ops + 1
  /\ UNCHANGED <<generatedText, isLoading, timers, pc, content,
                 headingPositions, blk, rng, clipboard, downloaded>>
  /\ UNCHANGED feedback
  /\ UNCHANGED conv
  /\ UNCHANGED click

\* click on the Generate button, which is disabled while isLoading
VueGenerateMarkdown ==
  /\ pc = "idle"
  /\ ~isLoading
  /\ ops < MaxOps
  /\ isLoading' = TRUE
  /\ timers' = timers + 1
  /\ ops' = ops + 1
  /\ clickOptions' = options
  /\ clickedSinceReset' = TRUE
  /\ UNCHANGED <<options, generatedText, pc, content, headingPositions,
                 blk, rng, clipboard, downloaded>>
  /\ UNCHANGED feedback
  /\ UNCHANGED conv

\* the timer callback and the steps of its call of generateContent, which
\* read options.value
VueTimerFire == TimerFireOn(options)

VueSampleStep == SampleStepOn(options)

VueSampleExit == SampleExitOn(options)

VueBlockStep == BlockStepOn(options)

VueGenReturn == GenReturnOn(options)

\* resetOptions of the Vue page: the statements of index.html's
VueResetOptions == resetOptions

VueResetToastTimeout == ResetToastTimeout

NextVue ==
  \/ \E option \in HostFlags : VueToggle(option)
  \/ \E n \in VueTypedNumbers : VueNumBlocksInput(n)
  \/ VueGenerateMarkdown
  \/ VueTimerFire
  \/ VueSampleStep
  \/ VueSampleExit
  \/ VueBlockStep
  \/ VueGenReturn
  \/ VueResetOptions
  \/ VueResetToastTimeout

SpecVue == Init /\ [][NextVue]_vars

\* C30: the document a click on Generate produces is generated from the
\* values the options had at the click, whatever is toggled, typed or
\* reset while the timer is pending: every step of the generation writes
\* what the click-time options prescribe, and the for loop runs for the
\* click-time numBlocks.
C30_Step ==
  /\ (pc = "idle" /\ pc' = "sample")
       => content' = MainHeading(clickOptions, rng).out
  /\ (pc = "sample" /\ pc' = "sample")
       => headingPositions' =
            headingPositions \cup {RandFloor(rng, clickOptions.numBlocks)}
  /\ (pc = "block" /\ pc' = "block")
       => content' =
            content \o BlockText(clickOptions, headingPositions, blk, rng).out
  /\ (pc = "block" /\ pc' = "idle")
       => /\ blk >= clickOptions.numBlocks
          /\ clickOptions.numBlocks >= 0 => blk = clickOptions.numBlocks

C30_ClickTimeOptions == [][C30_Step]_vars

====
